---- MODULE Spec2Model ----
(***************************************************************************)
(* Model of the fleet-metal Server: construction (New), the Run lifecycle  *)
(* (started guard, monitor goroutines, HTTP listener goroutine, wait for   *)
(* ctx.Done, bounded listener Shutdown), the two HTTP handlers             *)
(* (handleHealth, handleStatus) and the process entry point (main with its *)
(* signal goroutine and exit status).                                      *)
(*                                                                         *)
(* The repository holds two Server sources: the one wiring the secure      *)
(* manager (with routes) and the one wiring the state and diagnostics      *)
(* managers.  The variable `variant` says which one is built.              *)
(***************************************************************************)
EXTENDS Integers, Sequences, FiniteSets, TLC

\* ---------------------------------------------------------------- bounds
NumRunners  == 2    \* concurrent callers of Run
NumRequests == 2    \* HTTP requests over the lifetime
MaxSamples  == 1    \* monitor state updates over the lifetime
MaxFaults   == 1    \* monitor loops that return an error

Runners  == 1..NumRunners
Requests == 1..NumRequests

\* ---------------------------------------------------------------- values
None == 0                       \* no holder of mux / no runner

Variants  == {"secure", "core"}
DeviceIDs == {"", "test-device-001"}

Nil               == << >>
ErrCtor           == <<"constructor error">>
ErrCanceled       == <<"context canceled">>
ErrDeadline       == <<"context deadline exceeded">>
ErrAlreadyStarted == <<"server already started">>
ErrDeviceID       == <<"device ID is required">>

\* fmt.Errorf("msg: %w", err)
Wrap(msg, err) == <<msg>> \o err

Ctxs       == {"ctx"}
Background == "background"

\* Exit status of the process: none while it runs, 0 when main returns,
\* 1 from log.Fatal and log.Fatalf, 2 from the runtime on an unrecovered
\* panic.
NoExit      == -1
ExitSuccess == 0
ExitFatal   == 1
ExitPanic   == 2

Signals == {"SIGINT", "SIGTERM"}

VARIABLES
    variant,        \* which Server source is built
    cfg,            \* the Config passed to New and the constructors that fail
    constructed,    \* "no" (New not called), "yes" (Server returned), "failed"
    newErr,         \* error returned by New
    ctorCalls,      \* constructors New invoked, in order
    deviceID,       \* Server.deviceID
    started,        \* Server.started
    muxW,           \* Server.mux: runner holding the write lock, or None
    muxR,           \* Server.mux: requests holding the read lock
    runPc,          \* position of each Run call
    runCtx,         \* ctx argument of each Run call
    runRet,         \* error returned by each Run call (valid at "done")
    shutdownCalls,  \* httpServer.Shutdown invocations made by each Run call
    shutErr,        \* Run's local err: what its last Shutdown call returned
    gor,            \* goroutines started by each Run call: <<r, task>> -> state
    gorCtx,         \* ctx passed to the monitor loop of each goroutine
    ctxErr,         \* ctx.Err() of each context
    lnState,        \* httpServer listener: "none", "serving", "closed"
    inShutdown,     \* httpServer has been told to shut down
    lsCalls,        \* ListenAndServe invocations
    logged,         \* messages written by log.Printf
    sample,         \* each monitor's current sample number
    crashed,        \* the process was terminated by an unrecovered panic
    reqPc,          \* position of each request's handler
    req,            \* each request: path and method
    conns,          \* requests being served on a connection of the listener
    snap,           \* handleStatus locals: powerState, thermalState, securityState
    getCalls,       \* GetState calls made by each request, per monitor
    resp,           \* each request's response
    exitStatus,     \* exit status of the process, NoExit while it runs
    sigCh,          \* main's sigCh: the signals buffered for main (capacity 1)
    sigPc           \* main's signal goroutine: "none", "waiting", "done"

srvVars == <<variant, cfg, constructed, newErr, ctorCalls, deviceID>>
runVars == <<started, muxW, runPc, runCtx, runRet, shutdownCalls, shutErr>>
gorVars == <<gor, gorCtx, lnState, inShutdown, lsCalls, logged, sample, crashed>>
reqVars == <<muxR, reqPc, req, conns, snap, getCalls, resp>>
mainVars == <<exitStatus, sigCh, sigPc>>
vars    == <<srvVars, runVars, gorVars, reqVars, ctxErr, mainVars>>

\* ------------------------------------------------------------------- New
\* Order in which New calls the subsystem constructors.
CtorOrder(v) ==
    IF v = "secure" THEN <<"gpio", "power", "thermal", "security">>
                    ELSE <<"gpio", "power", "thermal", "state", "diag">>

Subsystems == {"gpio", "power", "thermal", "security", "state", "diag"}

\* Message of the error New returns when constructor s fails.
CtorErrMsg(v, s) ==
    CASE s = "gpio"     -> "failed to initialize GPIO"
      [] s = "power"    -> IF v = "secure" THEN "failed to initialize power management"
                                           ELSE "failed to initialize power manager"
      [] s = "thermal"  -> IF v = "secure" THEN "failed to initialize thermal management"
                                           ELSE "failed to initialize thermal manager"
      [] s = "security" -> "failed to initialize security management"
      [] s = "state"    -> "failed to initialize state manager"
      [] s = "diag"     -> "failed to initialize diagnostics"

\* Faulty variant of Construct: New keeps the first error but goes on
\* constructing.
RECURSIVE Construct_NoFailFast(_, _, _, _)
Construct_NoFailFast(v, F, i, calls) ==
    IF i > Len(CtorOrder(v))
    THEN [ok |-> TRUE, calls |-> calls, err |-> Nil]
    ELSE LET s == CtorOrder(v)[i] IN
         IF s \in F
         THEN [ok |-> FALSE,
               calls |-> Construct_NoFailFast(v, {}, i + 1, Append(calls, s)).calls,
               err |-> Wrap(CtorErrMsg(v, s), ErrCtor)]
         ELSE Construct_NoFailFast(v, F, i + 1, Append(calls, s))

\* The constructor calls of New from position i on; F is the set of
\* constructors that return an error.
RECURSIVE Construct(_, _, _, _)
Construct(v, F, i, calls) ==
    IF i > Len(CtorOrder(v))
    THEN [ok |-> TRUE, calls |-> calls, err |-> Nil]
    ELSE LET s == CtorOrder(v)[i] IN
         IF s \in F
         THEN [ok |-> FALSE, calls |-> Append(calls, s),
               err |-> Wrap(CtorErrMsg(v, s), ErrCtor)]
         ELSE Construct(v, F, i + 1, Append(calls, s))

NewResult(v, id, F) ==
    IF id = ""
    THEN [ok |-> FALSE, calls |-> << >>, err |-> ErrDeviceID]
    ELSE Construct(v, F, 1, << >>)

\* ------------------------------------------------------------------- Run
\* Monitor loops Run starts, then the HTTP listener, in statement order.
GoOrder(v) ==
    IF v = "secure" THEN <<"power", "thermal", "security", "http">>
                    ELSE <<"power", "thermal", "state", "diag", "http">>

Tasks == {"power", "thermal", "security", "state", "diag", "http"}
Monitors(v) == {GoOrder(v)[i] : i \in 1..Len(GoOrder(v))} \ {"http"}

\* log.Printf message of a failed monitor loop
MonitorErrLog(m) ==
    CASE m = "power"    -> "Power monitoring error"
      [] m = "thermal"  -> "Thermal monitoring error"
      [] m = "security" -> "Security monitoring error"
      [] m = "state"    -> "State manager error"
      [] m = "diag"     -> "Diagnostics error"

HTTPErrLog == "HTTP server error"

\* Faulty variant of MuxCanLock: a Lock that excludes nobody.
MuxCanLock_NoExclusion(w, rs) == TRUE

\* sync.RWMutex: Lock is granted when there is no writer and no reader.
MuxCanLock(w, rs) == w = None /\ rs = {}

\* Faulty variant of MuxCanRLock: a reader also excludes the other readers.
MuxCanRLock_Exclusive(w, pending) == w = None /\ pending = {} /\ muxR = {}

\* sync.RWMutex: RLock is granted when there is no writer and no Lock call
\* is pending.
MuxCanRLock(w, pending) == w = None /\ pending = {}

PendingLock == {r \in Runners : runPc[r] = "lock"}

\* Number of go statements Run call r has executed.
Spawned(r) == Cardinality({t \in Tasks : gor[<<r, t>>] # "none"})



\* ----------------------------------------------------- monitor snapshots
\* The hardware packages are external: a monitor's n-th sample is modelled
\* by values that all derive from n, so that a value mixing two samples is
\* recognisable.
PowerStateAt(n) ==
    [BatteryLevel |-> n, Charging |-> (n % 2 = 1), Voltage |-> n]
ThermalStateAt(n) ==
    [CPUTemp |-> n, GPUTemp |-> n, AmbientTemp |-> n, FanSpeed |-> n,
     Throttled |-> (n % 2 = 1)]
SecurityStateAt(n) ==
    [CaseOpen |-> (n % 2 = 1), MotionDetected |-> (n % 2 = 1),
     VoltageNormal |-> (n % 2 = 0)]

StateAt(m, n) ==
    CASE m = "power"    -> PowerStateAt(n)
      [] m = "thermal"  -> ThermalStateAt(n)
      [] m = "security" -> SecurityStateAt(n)

\* s.power.GetState(), s.thermal.GetState(), s.security.GetState()
GetState(m) == StateAt(m, sample[m])

\* Accessors handleStatus calls, in statement order.
StatusReads == <<"power", "thermal", "security">>
StatusMonitors == {"power", "thermal", "security"}

TotalSamples == sample["power"] + sample["thermal"] + sample["security"]

\* ------------------------------------------------------------------ Init
NoReq  == [path |-> "", method |-> ""]
NoResp == [code |-> 0, body |-> ""]
NoSnap == [m \in StatusMonitors |-> StateAt(m, 0)]

Init ==
    /\ variant \in Variants
    /\ cfg = [DeviceID |-> "", fail |-> {}]
    /\ constructed = "no"
    /\ newErr = Nil
    /\ ctorCalls = << >>
    /\ deviceID = ""
    /\ started = FALSE
    /\ muxW = None
    /\ muxR = {}
    /\ runPc = [r \in Runners |-> "idle"]
    /\ runCtx = [r \in Runners |-> Background]
    /\ runRet = [r \in Runners |-> Nil]
    /\ shutdownCalls = [r \in Runners |-> 0]
    /\ shutErr = [r \in Runners |-> Nil]
    /\ gor = [g \in Runners \X Tasks |-> "none"]
    /\ gorCtx = [g \in Runners \X Tasks |-> Background]
    /\ ctxErr = [c \in Ctxs \cup {Background} |-> Nil]
    /\ lnState = "none"
    /\ inShutdown = FALSE
    /\ lsCalls = 0
    /\ logged = {}
    /\ sample = [m \in StatusMonitors |-> 0]
    /\ crashed = FALSE
    /\ reqPc = [q \in Requests |-> "idle"]
    /\ req = [q \in Requests |-> NoReq]
    /\ conns = {}
    /\ snap = [q \in Requests |-> NoSnap]
    /\ getCalls = [q \in Requests |-> [m \in StatusMonitors |-> 0]]
    /\ resp = [q \in Requests |-> NoResp]
    /\ exitStatus = NoExit
    /\ sigCh = << >>
    /\ sigPc = "none"

\* The process is alive and New has returned a Server.
Alive == constructed = "yes" /\ ~crashed /\ exitStatus = NoExit

\* ------------------------------------------------------------ New (action)
New(id, F) ==
    /\ constructed = "no"
    /\ exitStatus = NoExit
    /\ LET res == NewResult(variant, id, F) IN
        /\ cfg' = [DeviceID |-> id, fail |-> F]
        /\ constructed' = IF res.ok THEN "yes" ELSE "failed"
        /\ newErr' = res.err
        /\ ctorCalls' = res.calls
        /\ deviceID' = IF res.ok THEN id ELSE ""
    /\ UNCHANGED <<variant, runVars, gorVars, reqVars, ctxErr, mainVars>>

\* ------------------------------------------------------------ Run (steps)
\* A caller enters Run(ctx) and reaches s.mux.Lock().  The callers are
\* numbered in the order in which they enter.
RunCall(r, c) ==
    /\ Alive
    /\ runPc[r] = "idle"
    /\ \A p \in Runners : p < r => runPc[p] # "idle"
    /\ runPc' = [runPc EXCEPT ![r] = "lock"]
    /\ runCtx' = [runCtx EXCEPT ![r] = c]
    /\ UNCHANGED <<mainVars, srvVars, started, muxW, runRet, shutdownCalls, shutErr, gorVars, reqVars, ctxErr>>

\* s.mux.Lock() returns.
RunLock(r) ==
    /\ Alive
    /\ runPc[r] = "lock"
    /\ MuxCanLock(muxW, muxR)
    /\ muxW' = r
    /\ runPc' = [runPc EXCEPT ![r] = "check"]
    /\ UNCHANGED <<mainVars, srvVars, started, runCtx, runRet, shutdownCalls, shutErr, gorVars, reqVars, ctxErr>>

\* Faulty variant of RunCheck: the guard unlocks but does not return.
RunCheck_NoReturn(r) ==
    /\ Alive
    /\ runPc[r] = "check"
    /\ IF started
       THEN /\ muxW' = None
            /\ runPc' = [runPc EXCEPT ![r] = "go"]
            /\ UNCHANGED runRet
       ELSE /\ runPc' = [runPc EXCEPT ![r] = "set"]
            /\ UNCHANGED <<muxW, runRet>>
    /\ UNCHANGED <<mainVars, srvVars, started, runCtx, shutdownCalls, shutErr, gorVars, reqVars, ctxErr>>

\* if s.started { s.mux.Unlock(); return fmt.Errorf("server already started") }
RunCheck(r) ==
    /\ Alive
    /\ runPc[r] = "check"
    /\ IF started
       THEN /\ muxW' = None
            /\ runRet' = [runRet EXCEPT ![r] = ErrAlreadyStarted]
            /\ runPc' = [runPc EXCEPT ![r] = "done"]
       ELSE /\ runPc' = [runPc EXCEPT ![r] = "set"]
            /\ UNCHANGED <<muxW, runRet>>
    /\ UNCHANGED <<mainVars, srvVars, started, runCtx, shutdownCalls, shutErr, gorVars, reqVars, ctxErr>>

\* Faulty variant of RunSet: starting the Server clears its device id.
RunSet_ClearsDeviceID(r) ==
    /\ Alive
    /\ runPc[r] = "set"
    /\ started' = TRUE
    /\ muxW' = None
    /\ deviceID' = ""
    /\ runPc' = [runPc EXCEPT ![r] = "go"]
    /\ UNCHANGED <<variant, cfg, constructed, newErr, ctorCalls, runCtx, runRet,
                   shutdownCalls, shutErr, gorVars, reqVars, ctxErr, mainVars>>

\* s.started = true; s.mux.Unlock()
RunSet(r) ==
    /\ Alive
    /\ runPc[r] = "set"
    /\ started' = TRUE
    /\ muxW' = None
    /\ runPc' = [runPc EXCEPT ![r] = "go"]
    /\ UNCHANGED <<mainVars, srvVars, runCtx, runRet, shutdownCalls, shutErr, gorVars, reqVars, ctxErr>>

\* Faulty variant of MonitorCtx: the monitor loops get a context of their
\* own that nobody cancels.
MonitorCtx_Background(r) == Background

\* The context a monitor loop started by Run call r is given.
MonitorCtx(r) == runCtx[r]

\* The next go statement of Run: a monitor loop, or last the HTTP listener.
RunGo(r) ==
    /\ Alive
    /\ runPc[r] = "go"
    /\ LET i == Spawned(r) + 1
           t == GoOrder(variant)[i] IN
        /\ gor' = [gor EXCEPT ![<<r, t>>] = IF t = "http" THEN "ready" ELSE "running"]
        /\ gorCtx' = [gorCtx EXCEPT ![<<r, t>>] = IF t = "http" THEN Background ELSE MonitorCtx(r)]
        /\ runPc' = [runPc EXCEPT ![r] = IF i = Len(GoOrder(variant)) THEN "wait" ELSE "go"]
    /\ UNCHANGED <<mainVars, srvVars, started, muxW, runCtx, runRet, shutdownCalls, shutErr,
                   lnState, inShutdown, lsCalls, logged, sample, crashed, reqVars, ctxErr>>

\* Faulty variant of RunWait: Run goes on to Shutdown without waiting for
\* its context.
RunWait_NoWait(r) ==
    /\ Alive
    /\ runPc[r] = "wait"
    /\ runPc' = [runPc EXCEPT ![r] = "shutdown"]
    /\ UNCHANGED <<mainVars, srvVars, started, muxW, runCtx, runRet, shutdownCalls, shutErr, gorVars, reqVars, ctxErr>>

\* <-ctx.Done()
RunWait(r) ==
    /\ Alive
    /\ runPc[r] = "wait"
    /\ ctxErr[runCtx[r]] # Nil
    /\ runPc' = [runPc EXCEPT ![r] = "shutdown"]
    /\ UNCHANGED <<mainVars, srvVars, started, muxW, runCtx, runRet, shutdownCalls, shutErr, gorVars, reqVars, ctxErr>>

\* Faulty variant of RunShutdown: Run also ends its monitor goroutines.
RunShutdown_KillsMonitors(r) ==
    /\ Alive
    /\ runPc[r] = "shutdown"
    /\ shutdownCalls' = [shutdownCalls EXCEPT ![r] = @ + 1]
    /\ inShutdown' = TRUE
    /\ lnState' = IF lnState = "serving" THEN "closed" ELSE lnState
    /\ gor' = [g \in Runners \X Tasks |->
                IF g[1] = r /\ g[2] # "http" /\ gor[g] = "running" THEN "exited" ELSE gor[g]]
    /\ runPc' = [runPc EXCEPT ![r] = "shutwait"]
    /\ UNCHANGED <<mainVars, srvVars, started, muxW, runCtx, runRet, shutErr,
                   gorCtx, lsCalls, logged, sample, crashed, reqVars, ctxErr>>

\* s.httpServer.Shutdown(shutdownCtx) is entered: the server is marked as
\* shutting down and its listener is closed.
RunShutdown(r) ==
    /\ Alive
    /\ runPc[r] = "shutdown"
    /\ shutdownCalls' = [shutdownCalls EXCEPT ![r] = @ + 1]
    /\ inShutdown' = TRUE
    /\ lnState' = IF lnState = "serving" THEN "closed" ELSE lnState
    /\ runPc' = [runPc EXCEPT ![r] = "shutwait"]
    /\ UNCHANGED <<mainVars, srvVars, started, muxW, runCtx, runRet, shutErr,
                   gor, gorCtx, lsCalls, logged, sample, crashed, reqVars, ctxErr>>

\* Result of Shutdown: nil once no connection is active, the grace
\* period's deadline error while connections are active.
ShutdownResult(active) == IF active = {} THEN Nil ELSE ErrDeadline

\* Faulty variant of RunReturn: Run returns ctx.Err() after a clean shutdown.
RunReturn_CtxErr(r, err) ==
    IF err # Nil THEN Wrap("error shutting down HTTP server", err) ELSE ctxErr[runCtx[r]]

\* if err := Shutdown(...); err != nil { return fmt.Errorf("...: %w", err) }; return nil
RunReturn(r, err) ==
    IF err # Nil THEN Wrap("error shutting down HTTP server", err) ELSE Nil

\* Faulty variant of AfterShutdown: Run calls Shutdown again when it failed.
AfterShutdown_Retry(err) == IF err # Nil THEN "shutdown" ELSE "done"

\* Position of Run after Shutdown has returned err.
AfterShutdown(err) == "done"

\* Faulty variant of RunShutdownReturn: Run clears started when it returns.
RunShutdownReturn_ClearsStarted(r) ==
    /\ Alive
    /\ runPc[r] = "shutwait"
    /\ LET err == ShutdownResult(conns) IN
        /\ runPc' = [runPc EXCEPT ![r] = "done"]
        /\ shutErr' = [shutErr EXCEPT ![r] = err]
        /\ runRet' = [runRet EXCEPT ![r] = RunReturn(r, err)]
    /\ started' = FALSE
    /\ UNCHANGED <<mainVars, srvVars, muxW, runCtx, shutdownCalls, gorVars, reqVars, ctxErr>>

\* Shutdown returns (all connections idle, or the 30 s grace period expired)
\* and Run returns.
RunShutdownReturn(r) ==
    /\ Alive
    /\ runPc[r] = "shutwait"
    /\ LET err == ShutdownResult(conns) IN
        /\ runPc' = [runPc EXCEPT ![r] = AfterShutdown(err)]
        /\ shutErr' = [shutErr EXCEPT ![r] = err]
        /\ runRet' = IF AfterShutdown(err) = "done"
                     THEN [runRet EXCEPT ![r] = RunReturn(r, err)]
                     ELSE runRet
    /\ UNCHANGED <<mainVars, srvVars, started, muxW, runCtx, shutdownCalls, gorVars, reqVars, ctxErr>>

\* ------------------------------------------------------------ goroutines
\* A context is cancelled or its deadline expires.
CtxEnd(c, err) ==
    /\ Alive
    /\ ctxErr[c] = Nil
    /\ ctxErr' = [ctxErr EXCEPT ![c] = err]
    /\ UNCHANGED <<mainVars, srvVars, runVars, gorVars, reqVars>>

Faults == Cardinality({g \in Runners \X Tasks : gor[g] = "failed"})

\* A running monitor loop takes a new sample.
MonitorSample(r, m) ==
    /\ Alive
    /\ m \in StatusMonitors
    /\ gor[<<r, m>>] = "running"
    /\ TotalSamples < MaxSamples
    /\ sample' = [sample EXCEPT ![m] = @ + 1]
    /\ UNCHANGED <<mainVars, srvVars, runVars, gor, gorCtx, lnState, inShutdown, lsCalls,
                   logged, crashed, reqVars, ctxErr>>

\* A monitor loop observes the cancellation of its context and returns nil.
MonitorExit(r, m) ==
    /\ Alive
    /\ m \in Monitors(variant)
    /\ gor[<<r, m>>] = "running"
    /\ ctxErr[gorCtx[<<r, m>>]] # Nil
    /\ gor' = [gor EXCEPT ![<<r, m>>] = "exited"]
    /\ UNCHANGED <<mainVars, srvVars, runVars, gorCtx, lnState, inShutdown, lsCalls,
                   logged, sample, crashed, reqVars, ctxErr>>

\* Faulty variant of GorAfterError: a monitor error ends every monitor loop
\* of the same Run call.
GorAfterError_StopsSiblings(g) ==
    [h \in Runners \X Tasks |->
        IF h[1] = g[1] /\ h[2] # "http" /\ gor[h] = "running" THEN "failed" ELSE gor[h]]

\* Goroutine states after the monitor loop of goroutine g returned an error:
\* the goroutine logs the error and ends.
GorAfterError(g) == [gor EXCEPT ![g] = "failed"]

\* if err := s.<monitor>.Monitor(ctx); err != nil { log.Printf(...) }
MonitorError(r, m) ==
    /\ Alive
    /\ m \in Monitors(variant)
    /\ gor[<<r, m>>] = "running"
    /\ Faults < MaxFaults
    /\ gor' = GorAfterError(<<r, m>>)
    /\ logged' = logged \cup {MonitorErrLog(m)}
    /\ UNCHANGED <<mainVars, srvVars, runVars, gorCtx, lnState, inShutdown, lsCalls,
                   sample, crashed, reqVars, ctxErr>>

\* A monitor loop panics.  The goroutine bodies hold no recover(), so the
\* runtime ends the process: the Server, its goroutines and the requests
\* being served are gone, and nothing of the process runs afterwards.
MonitorPanic(r, m) ==
    /\ Alive
    /\ m \in Monitors(variant)
    /\ gor[<<r, m>>] = "running"
    /\ crashed' = TRUE
    /\ gor' = [g \in Runners \X Tasks |-> IF g = <<r, m>> THEN "panicked" ELSE "none"]
    /\ gorCtx' = [g \in Runners \X Tasks |-> Background]
    /\ deviceID' = ""
    /\ started' = FALSE
    /\ muxW' = None
    /\ muxR' = {}
    /\ runPc' = [p \in Runners |-> "idle"]
    /\ runCtx' = [p \in Runners |-> Background]
    /\ runRet' = [p \in Runners |-> Nil]
    /\ shutdownCalls' = [p \in Runners |-> 0]
    /\ shutErr' = [p \in Runners |-> Nil]
    /\ ctxErr' = [c \in Ctxs \cup {Background} |-> Nil]
    /\ lnState' = "none"
    /\ inShutdown' = FALSE
    /\ lsCalls' = 0
    /\ logged' = {}
    /\ sample' = [n \in StatusMonitors |-> 0]
    /\ reqPc' = [q \in Requests |-> "idle"]
    /\ req' = [q \in Requests |-> NoReq]
    /\ conns' = {}
    /\ snap' = [q \in Requests |-> NoSnap]
    /\ getCalls' = [q \in Requests |-> [n \in StatusMonitors |-> 0]]
    /\ resp' = [q \in Requests |-> NoResp]
    /\ exitStatus' = ExitPanic
    /\ sigCh' = << >>
    /\ sigPc' = "none"
    /\ UNCHANGED <<variant, cfg, constructed, newErr, ctorCalls>>

\* Faulty variant of HTTPLog: the listener goroutine logs nothing.
HTTPLog_Silent(closed) == {}

\* if err := ListenAndServe(); err != http.ErrServerClosed { log.Printf(...) }
HTTPLog(closed) == IF closed THEN {} ELSE {HTTPErrLog}

\* Faulty variant of HTTPListen: ListenAndServe binds and serves although
\* Shutdown has been called.
HTTPListen_IgnoresShutdown(r, bound) ==
    /\ Alive
    /\ gor[<<r, "http">>] = "ready"
    /\ lsCalls' = lsCalls + 1
    /\ IF bound
       THEN /\ gor' = [gor EXCEPT ![<<r, "http">>] = "running"]
            /\ lnState' = "serving"
            /\ UNCHANGED logged
       ELSE /\ gor' = [gor EXCEPT ![<<r, "http">>] = "exited"]
            /\ logged' = logged \cup HTTPLog(FALSE)
            /\ UNCHANGED lnState
    /\ UNCHANGED <<mainVars, srvVars, runVars, gorCtx, inShutdown, sample, crashed, reqVars, ctxErr>>

\* The listener goroutine runs s.httpServer.ListenAndServe(): after
\* Shutdown it returns ErrServerClosed at once; otherwise it binds the
\* address (bound) and serves, or fails to bind and returns the error.
HTTPListen(r, bound) ==
    /\ Alive
    /\ gor[<<r, "http">>] = "ready"
    /\ lsCalls' = lsCalls + 1
    /\ IF inShutdown
       THEN /\ gor' = [gor EXCEPT ![<<r, "http">>] = "exited"]
            /\ logged' = logged \cup HTTPLog(TRUE)
            /\ UNCHANGED lnState
       ELSE IF bound
       THEN /\ gor' = [gor EXCEPT ![<<r, "http">>] = "running"]
            /\ lnState' = "serving"
            /\ UNCHANGED logged
       ELSE /\ gor' = [gor EXCEPT ![<<r, "http">>] = "exited"]
            /\ logged' = logged \cup HTTPLog(FALSE)
            /\ UNCHANGED lnState
    /\ UNCHANGED <<mainVars, srvVars, runVars, gorCtx, inShutdown, sample, crashed, reqVars, ctxErr>>

\* ListenAndServe returns ErrServerClosed once Shutdown was called.
HTTPServeClosed(r) ==
    /\ Alive
    /\ gor[<<r, "http">>] = "running"
    /\ inShutdown
    /\ gor' = [gor EXCEPT ![<<r, "http">>] = "exited"]
    /\ logged' = logged \cup HTTPLog(TRUE)
    /\ UNCHANGED <<mainVars, srvVars, runVars, gorCtx, lnState, inShutdown, lsCalls,
                   sample, crashed, reqVars, ctxErr>>

\* -------------------------------------------------------------- handlers
Methods == {"GET", "POST"}
Vias    == {"conn", "direct"}

StatusOK               == 200
StatusMethodNotAllowed == 405

\* Faulty variant of MethodRejected: the handlers do not look at the method.
MethodRejected_Never(method) == FALSE

\* if r.Method != http.MethodGet
MethodRejected(method) == method # "GET"

MethodNotAllowed == [code |-> StatusMethodNotAllowed, body |-> "Method not allowed"]

\* A request can reach routes(): over a connection the listener accepted,
\* or by a direct call of routes().ServeHTTP.  Only the source with the
\* secure manager defines routes and the handlers.  Requests are numbered
\* in the order of their arrival.
CanArrive(q, via) ==
    /\ Alive
    /\ variant = "secure"
    /\ reqPc[q] = "idle"
    /\ \A p \in Requests : p < q => reqPc[p] # "idle"
    /\ via = "conn" => lnState = "serving"

\* Faulty variant of handleHealth: it waits for the read lock.
handleHealth_Locked(q, method, via) ==
    /\ CanArrive(q, via)
    /\ MuxCanRLock(muxW, PendingLock)
    /\ req' = [req EXCEPT ![q] = [path |-> "/health", method |-> method]]
    /\ resp' = [resp EXCEPT ![q] =
                  IF MethodRejected(method)
                  THEN MethodNotAllowed
                  ELSE [code |-> StatusOK, body |-> [status |-> "ok"]]]
    /\ reqPc' = [reqPc EXCEPT ![q] = "done"]
    /\ UNCHANGED <<mainVars, srvVars, runVars, gorVars, muxR, conns, snap, getCalls, ctxErr>>

\* handleHealth, from the arrival of the request to its response
handleHealth(q, method, via) ==
    /\ CanArrive(q, via)
    /\ req' = [req EXCEPT ![q] = [path |-> "/health", method |-> method]]
    /\ resp' = [resp EXCEPT ![q] =
                  IF MethodRejected(method)
                  THEN MethodNotAllowed
                  ELSE [code |-> StatusOK, body |-> [status |-> "ok"]]]
    /\ reqPc' = [reqPc EXCEPT ![q] = "done"]
    /\ UNCHANGED <<mainVars, srvVars, runVars, gorVars, muxR, conns, snap, getCalls, ctxErr>>

\* handleStatus, from the arrival of the request up to s.mux.RLock()
handleStatus(q, method, via) ==
    /\ CanArrive(q, via)
    /\ req' = [req EXCEPT ![q] = [path |-> "/api/v1/status", method |-> method]]
    /\ IF MethodRejected(method)
       THEN /\ resp' = [resp EXCEPT ![q] = MethodNotAllowed]
            /\ reqPc' = [reqPc EXCEPT ![q] = "done"]
            /\ UNCHANGED conns
       ELSE /\ reqPc' = [reqPc EXCEPT ![q] = "rlock"]
            /\ conns' = IF via = "conn" THEN conns \cup {q} ELSE conns
            /\ UNCHANGED resp
    /\ UNCHANGED <<mainVars, srvVars, runVars, gorVars, muxR, snap, getCalls, ctxErr>>

\* s.mux.RLock() returns.
StatusRLock(q) ==
    /\ Alive
    /\ reqPc[q] = "rlock"
    /\ MuxCanRLock(muxW, PendingLock)
    /\ muxR' = muxR \cup {q}
    /\ reqPc' = [reqPc EXCEPT ![q] = StatusReads[1]]
    /\ UNCHANGED <<mainVars, srvVars, runVars, gorVars, req, conns, snap, getCalls, resp, ctxErr>>

\* Position of handleStatus after the accessor of monitor m.
AfterRead(m) ==
    CASE m = "power"    -> "thermal"
      [] m = "thermal"  -> "security"
      [] m = "security" -> "encode"

\* powerState := s.power.GetState(), and likewise thermal and security
StatusGetState(q) ==
    /\ Alive
    /\ reqPc[q] \in StatusMonitors
    /\ LET m == reqPc[q] IN
        /\ snap' = [snap EXCEPT ![q][m] = GetState(m)]
        /\ getCalls' = [getCalls EXCEPT ![q][m] = @ + 1]
        /\ reqPc' = [reqPc EXCEPT ![q] = AfterRead(m)]
    /\ UNCHANGED <<mainVars, srvVars, runVars, gorVars, muxR, req, conns, resp, ctxErr>>

\* Faulty variant of BuildStatus: the voltage is read from the monitor again
\* when the response is filled.
BuildStatus_Reread(q) ==
    [device_id |-> deviceID,
     power     |-> [battery_level |-> snap[q]["power"].BatteryLevel,
                    charging      |-> snap[q]["power"].Charging,
                    voltage       |-> GetState("power").Voltage],
     thermal   |-> [cpu_temp     |-> snap[q]["thermal"].CPUTemp,
                    gpu_temp     |-> snap[q]["thermal"].GPUTemp,
                    ambient_temp |-> snap[q]["thermal"].AmbientTemp,
                    fan_speed    |-> snap[q]["thermal"].FanSpeed,
                    throttled    |-> snap[q]["thermal"].Throttled],
     security  |-> [case_open       |-> snap[q]["security"].CaseOpen,
                    motion_detected |-> snap[q]["security"].MotionDetected,
                    voltage_normal  |-> snap[q]["security"].VoltageNormal]]

\* The SystemStatus value handleStatus fills from its locals (without its
\* Time field, which is the clock's).
BuildStatus(q) ==
    [device_id |-> deviceID,
     power     |-> [battery_level |-> snap[q]["power"].BatteryLevel,
                    charging      |-> snap[q]["power"].Charging,
                    voltage       |-> snap[q]["power"].Voltage],
     thermal   |-> [cpu_temp     |-> snap[q]["thermal"].CPUTemp,
                    gpu_temp     |-> snap[q]["thermal"].GPUTemp,
                    ambient_temp |-> snap[q]["thermal"].AmbientTemp,
                    fan_speed    |-> snap[q]["thermal"].FanSpeed,
                    throttled    |-> snap[q]["thermal"].Throttled],
     security  |-> [case_open       |-> snap[q]["security"].CaseOpen,
                    motion_detected |-> snap[q]["security"].MotionDetected,
                    voltage_normal  |-> snap[q]["security"].VoltageNormal]]

\* The response is built and json-encoded to the client.
StatusEncode(q) ==
    /\ Alive
    /\ reqPc[q] = "encode"
    /\ resp' = [resp EXCEPT ![q] = [code |-> StatusOK, body |-> BuildStatus(q)]]
    /\ reqPc' = [reqPc EXCEPT ![q] = "unlock"]
    /\ UNCHANGED <<mainVars, srvVars, runVars, gorVars, muxR, req, conns, snap, getCalls, ctxErr>>

\* defer s.mux.RUnlock(); the handler returns.
StatusReturn(q) ==
    /\ Alive
    /\ reqPc[q] = "unlock"
    /\ muxR' = muxR \ {q}
    /\ conns' = conns \ {q}
    /\ reqPc' = [reqPc EXCEPT ![q] = "done"]
    /\ UNCHANGED <<mainVars, srvVars, runVars, gorVars, req, snap, getCalls, resp, ctxErr>>

\* ------------------------------------------------------------------ main
\* The Run call of main is the first call of Run.
MainRunner == 1

\* log.Printf("Received signal %v, shutting down...", sig)
SignalLog(sig) ==
    IF sig = "SIGINT" THEN "Received signal interrupt, shutting down..."
                      ELSE "Received signal terminated, shutting down..."

\* cancel() of context.WithCancel: the first call ends the context.
Cancel(c) == [ctxErr EXCEPT ![c] = IF @ = Nil THEN ErrCanceled ELSE @]

\* if *deviceID == "" { log.Fatal("device-id is required") }
MainDeviceIDRequired ==
    /\ constructed = "no"
    /\ exitStatus = NoExit
    /\ exitStatus' = ExitFatal
    /\ UNCHANGED <<srvVars, runVars, gorVars, reqVars, ctxErr, sigCh, sigPc>>

\* server.New with the device id of the flag, which main found non-empty
MainNew(id, F) ==
    /\ id # ""
    /\ New(id, F)

\* signal.Notify(sigCh, SIGINT, SIGTERM); go func() { sig := <-sigCh ... }()
MainNotify ==
    /\ Alive
    /\ sigPc = "none"
    /\ sigPc' = "waiting"
    /\ UNCHANGED <<srvVars, runVars, gorVars, reqVars, ctxErr, exitStatus, sigCh>>

\* srv.Run(ctx) is called.
MainRun ==
    /\ sigPc # "none"
    /\ RunCall(MainRunner, "ctx")

\* The process is sent sig.  The signal package passes it to sigCh without
\* blocking: a signal that finds the buffer full is dropped.
Signal(sig) ==
    /\ Alive
    /\ sigPc # "none"
    /\ sigCh' = IF Len(sigCh) < 1 THEN Append(sigCh, sig) ELSE sigCh
    /\ UNCHANGED <<srvVars, runVars, gorVars, reqVars, ctxErr, exitStatus, sigPc>>

\* sig := <-sigCh; log.Printf(...); cancel()
SigHandle ==
    /\ Alive
    /\ sigPc = "waiting"
    /\ sigCh # << >>
    /\ sigCh' = Tail(sigCh)
    /\ logged' = logged \cup {SignalLog(Head(sigCh))}
    /\ ctxErr' = Cancel("ctx")
    /\ sigPc' = "done"
    /\ UNCHANGED <<srvVars, runVars, gor, gorCtx, lnState, inShutdown, lsCalls,
                   sample, crashed, reqVars, exitStatus>>

\* Faulty variant of ExitStatusOf: the process always exits with success.
ExitStatusOf_AlwaysSuccess(err) == ExitSuccess

\* if err != nil { log.Fatalf(...) }, else main goes on or returns
ExitStatusOf(err) == IF err # Nil THEN ExitFatal ELSE ExitSuccess

\* The process exits: by log.Fatalf when New or Run returned an error, by
\* the return of main (which runs the deferred cancel) when Run returned nil.
MainExit ==
    /\ exitStatus = NoExit
    /\ ~crashed
    /\ \/ constructed = "failed"
       \/ constructed = "yes" /\ runPc[MainRunner] = "done"
    /\ LET err == IF constructed = "failed" THEN newErr ELSE runRet[MainRunner] IN
        /\ exitStatus' = ExitStatusOf(err)
        /\ ctxErr' = IF err = Nil THEN Cancel("ctx") ELSE ctxErr
    /\ UNCHANGED <<srvVars, runVars, gorVars, reqVars, sigCh, sigPc>>

\* ------------------------------------------------------------------ Spec
\* New, called once by the process entry point
NextNew == \E id \in DeviceIDs, F \in SUBSET Subsystems : New(id, F)

\* The steps of the Run calls of the callers in R
NextRun(R) ==
    \/ \E r \in R, c \in Ctxs : RunCall(r, c)
    \/ \E r \in R : RunLock(r)
    \/ \E r \in R : RunCheck(r)
    \/ \E r \in R : RunSet(r)
    \/ \E r \in R : RunGo(r)
    \/ \E r \in R : RunWait(r)
    \/ \E r \in R : RunShutdown(r)
    \/ \E r \in R : RunShutdownReturn(r)

\* A context ends with one of the errors in E
CtxErrs == {ErrCanceled, ErrDeadline}
NextCtx(E) == \E c \in Ctxs, e \in E : CtxEnd(c, e)

\* The HTTP listener goroutine
NextHTTP ==
    \/ \E r \in Runners, b \in BOOLEAN : HTTPListen(r, b)
    \/ \E r \in Runners : HTTPServeClosed(r)

\* The ways a monitor loop ends
NextMonitorEnd ==
    \/ \E r \in Runners, m \in Tasks : MonitorExit(r, m)
    \/ \E r \in Runners, m \in Tasks : MonitorError(r, m)
    \/ \E r \in Runners, m \in Tasks : MonitorPanic(r, m)

NextSample == \E r \in Runners, m \in Tasks : MonitorSample(r, m)

\* The handlers of the requests in Q, which arrive by the ways in V
NextReq(Q, V) ==
    \/ \E q \in Q, m \in Methods, v \in V : handleHealth(q, m, v)
    \/ \E q \in Q, m \in Methods, v \in V : handleStatus(q, m, v)
    \/ \E q \in Q : StatusRLock(q)
    \/ \E q \in Q : StatusGetState(q)
    \/ \E q \in Q : StatusEncode(q)
    \/ \E q \in Q : StatusReturn(q)

\* The package server as a whole.  Its state space is the product of the
\* scopes below, under which the properties are checked.
Next ==
    \/ NextNew
    \/ NextRun(Runners)
    \/ NextCtx(CtxErrs)
    \/ NextHTTP
    \/ NextMonitorEnd
    \/ NextSample
    \/ NextReq(Requests, Vias)

Spec == Init /\ [][Next]_vars

\* The lifecycle: every Run caller and every fate of the goroutines.
NextLifecycle ==
    \/ NextNew
    \/ NextRun(Runners)
    \/ NextCtx(CtxErrs)
    \/ NextHTTP
    \/ NextMonitorEnd

SpecLifecycle == Init /\ [][NextLifecycle]_vars

\* Shutdown: every Run caller, the listener and a request it serves or
\* that is made directly, with monitor loops that run until a panic.
NextShutdown ==
    \/ NextNew
    \/ NextRun(Runners)
    \/ NextCtx(CtxErrs)
    \/ NextHTTP
    \/ \E r \in Runners, m \in Tasks : MonitorPanic(r, m)
    \/ NextReq({1}, Vias)

SpecShutdown == Init /\ [][NextShutdown]_vars

\* The steps of Run call r and of the handler of request q
RunStep(r) ==
    \/ RunLock(r) \/ RunCheck(r) \/ RunSet(r) \/ RunGo(r)
    \/ RunWait(r) \/ RunShutdown(r) \/ RunShutdownReturn(r)
StatusStep(q) ==
    \/ StatusRLock(q) \/ StatusGetState(q) \/ StatusEncode(q) \/ StatusReturn(q)

\* The scheduler runs every goroutine that can take a step: a Run call
\* that is not blocked, and a handler whose accessors return.  The grace
\* period of Shutdown ends, so its return is a step that can be taken.
FairShutdown ==
    /\ SpecShutdown
    /\ \A r \in Runners : WF_vars(RunStep(r))
    /\ \A q \in Requests : WF_vars(StatusStep(q))

\* The scheduler runs every Run call that can take a step; whether a
\* monitor loop ever looks at its context is the monitor's affair.
FairLifecycle ==
    /\ SpecLifecycle
    /\ \A r \in Runners : WF_vars(RunStep(r))

\* The handlers: every request, made as the repository's test makes them
\* (routes().ServeHTTP), and the monitors sampling, around one Run call
\* whose monitor loops keep running.
NextHandlers ==
    \/ NextNew
    \/ NextRun({1})
    \/ NextCtx({ErrCanceled})
    \/ NextHTTP
    \/ NextSample
    \/ NextReq(Requests, {"direct"})

SpecHandlers == Init /\ [][NextHandlers]_vars

\* The scheduler runs the Run call and every handler that can take a step:
\* the accessors of the monitors return.
FairHandlers ==
    /\ SpecHandlers
    /\ \A r \in Runners : WF_vars(RunStep(r))
    /\ \A q \in Requests : WF_vars(StatusStep(q))

\* The steps of main after the flags are parsed
MainStep ==
    \/ \E id \in DeviceIDs, F \in SUBSET Subsystems : MainNew(id, F)
    \/ MainNotify
    \/ MainRun
    \/ MainExit

\* The process: main, its signal goroutine, its one Run call with the
\* goroutines Run starts, and a request the listener serves.  The context
\* of Run is main's, which only main's cancel function ends.
NextMain ==
    \/ MainDeviceIDRequired
    \/ MainStep
    \/ RunStep(MainRunner)
    \/ \E sig \in Signals : Signal(sig)
    \/ SigHandle
    \/ NextHTTP
    \/ NextMonitorEnd
    \/ NextReq({1}, {"conn"})

SpecMain == Init /\ [][NextMain]_vars

\* main, its signal goroutine, the Run call and the handlers are scheduled
\* whenever they can take a step.
FairMain ==
    /\ SpecMain
    /\ WF_vars(MainStep)
    /\ WF_vars(SigHandle)
    /\ WF_vars(RunStep(MainRunner))
    /\ \A q \in Requests : WF_vars(StatusStep(q))

\* ================================================================ claims
\* Run call r got past the started guard.
Passed(r) ==
    \/ runPc[r] \in {"set", "go", "wait", "shutdown", "shutwait"}
    \/ runPc[r] = "done" /\ runRet[r] # ErrAlreadyStarted

Rejected(r) == runPc[r] = "done" /\ runRet[r] = ErrAlreadyStarted

\* C1: a Run call that finds started set returns the "server already
\* started" error at its guard and changes nothing: no goroutine is started,
\* ListenAndServe and Shutdown are not called, started and every other field
\* of the Server stay as they were, and the lock it took is released.
C1_RejectedRunHasNoSideEffects ==
    /\ [](\A r \in Runners : Rejected(r) =>
            /\ Spawned(r) = 0
            /\ shutdownCalls[r] = 0
            /\ started)
    /\ [][\A r \in Runners :
            (runPc[r] = "check" /\ started /\ runPc'[r] # "check" /\ ~crashed') =>
                /\ runPc'[r] = "done"
                /\ runRet'[r] = ErrAlreadyStarted
                /\ muxW = r /\ muxW' = None
                /\ UNCHANGED <<srvVars, started, muxR, gor, gorCtx, lnState, inShutdown,
                               lsCalls, shutdownCalls, shutErr, logged, ctxErr>>
                /\ \A p \in Runners \ {r} : runPc'[p] = runPc[p] /\ runRet'[p] = runRet[p]
         ]_vars

C1_Witness ==
    \E r, p \in Runners :
        /\ Rejected(r)
        /\ runPc[p] = "wait"
        /\ gor[<<p, "http">>] = "running"

\* C2: under every interleaving of concurrent Run calls at most one call
\* gets past the started guard, and exactly one once every call has decided;
\* every other call returns the already-started error; each monitor loop is
\* started at most once and ListenAndServe is invoked at most once.
C2_OneRunPassesTheGuard ==
    /\ Cardinality({r \in Runners : Passed(r)}) <= 1
    /\ (\A r \in Runners : runPc[r] \notin {"idle", "lock", "check"})
            => Cardinality({r \in Runners : Passed(r)}) = 1
    /\ \A r \in Runners : (runPc[r] = "done" /\ Spawned(r) = 0) => Rejected(r)
    /\ \A t \in Tasks : Cardinality({r \in Runners : gor[<<r, t>>] # "none"}) <= 1
    /\ lsCalls <= 1

C2_Witness ==
    /\ \A r \in Runners : runPc[r] \notin {"idle", "lock", "check"}
    /\ \E r \in Runners : Rejected(r)
    /\ lsCalls = 1

\* C4: when a monitor loop returns an error only its own goroutine ends:
\* the other monitor goroutines and the listener goroutine are as before,
\* no Run call moves or returns because of it, Run leaves its wait only on
\* a cancelled context, and a Run that got past the guard returns nil when
\* Shutdown succeeded, whatever monitor errors happened.
C4_MonitorErrorIsIsolated ==
    /\ [](\A r \in Runners :
            (runPc[r] = "done" /\ Passed(r) /\ shutErr[r] = Nil) => runRet[r] = Nil)
    /\ [][\A g \in Runners \X Tasks :
            (gor[g] = "running" /\ gor'[g] = "failed") =>
                /\ \A h \in (Runners \X Tasks) \ {g} : gor'[h] = gor[h]
                /\ UNCHANGED <<runVars, lnState, inShutdown, ctxErr, crashed>>
         ]_vars
    /\ [][\A r \in Runners :
            (runPc[r] = "wait" /\ runPc'[r] # "wait" /\ ~crashed') =>
                /\ ctxErr[runCtx[r]] # Nil
                /\ runPc'[r] = "shutdown"
         ]_vars

C4_Witness ==
    \E r \in Runners, m, n \in Monitors(variant) :
        /\ m # n
        /\ gor[<<r, m>>] = "failed"
        /\ gor[<<r, n>>] = "running"
        /\ gor[<<r, "http">>] = "running"
        /\ runPc[r] = "wait"
        /\ MonitorErrLog(m) \in logged

\* C5: a panic in one monitor goroutine is contained: the process does not
\* crash, and the other goroutines and the Run calls go on.
C5_PanicIsContained ==
    (\E g \in Runners \X Tasks : gor[g] = "panicked") =>
        /\ ~crashed
        /\ \E r \in Runners : runPc[r] # "idle"

\* C7: New rejects an empty DeviceID before calling any constructor;
\* otherwise it calls the constructors in the order gpio, power, thermal,
\* then security (or state, then diagnostics), up to and including the first
\* one that fails and none after it; it then returns no Server and an error
\* whose message is the failed subsystem's; it returns a Server only when
\* every constructor succeeded.
C7_Order ==
    IF variant = "secure" THEN <<"gpio", "power", "thermal", "security">>
                          ELSE <<"gpio", "power", "thermal", "state", "diag">>

C7_FirstFailure ==
    LET bad == {i \in 1..Len(C7_Order) : C7_Order[i] \in cfg.fail}
    IN  IF bad = {} THEN 0 ELSE CHOOSE i \in bad : \A j \in bad : i <= j

C7_NewFailsFast ==
    constructed # "no" =>
        IF cfg.DeviceID = ""
        THEN constructed = "failed" /\ ctorCalls = << >> /\ newErr = ErrDeviceID
        ELSE IF C7_FirstFailure = 0
        THEN constructed = "yes" /\ ctorCalls = C7_Order /\ newErr = Nil
        ELSE /\ constructed = "failed"
             /\ ctorCalls = SubSeq(C7_Order, 1, C7_FirstFailure)
             /\ newErr = Wrap(CtorErrMsg(variant, C7_Order[C7_FirstFailure]), ErrCtor)
             /\ \A s \in Subsystems \ {C7_Order[C7_FirstFailure]} :
                    CtorErrMsg(variant, s) # newErr[1]

C7_Witness ==
    /\ constructed = "failed"
    /\ cfg.DeviceID # ""
    /\ Len(ctorCalls) = 2
    /\ cfg.fail = {"power", "thermal"}

\* Error Run returns when Shutdown returned err
ShutdownFailure(err) == Wrap("error shutting down HTTP server", err)

\* C3 (as claimed): a Run that got past the guard and whose context ended
\* returns no error.
C3_RunReturnsNoError ==
    \A r \in Runners : (runPc[r] = "done" /\ Passed(r)) => runRet[r] = Nil

\* C3 (amended): every Run call whose context has ended returns, unless the
\* process ended first; a Run that got past the guard returns nil when
\* Shutdown succeeded and the wrapped Shutdown error when it failed, and
\* never the cancellation or deadline error of its own context.
C3_RunReturnsAfterCancel ==
    /\ \A r \in Runners :
          (runPc[r] # "idle" /\ ctxErr[runCtx[r]] # Nil) ~> (runPc[r] = "done" \/ crashed)
    /\ [](\A r \in Runners : (runPc[r] = "done" /\ Passed(r)) =>
            /\ ctxErr[runCtx[r]] # Nil
            /\ runRet[r] = IF shutErr[r] = Nil THEN Nil ELSE ShutdownFailure(shutErr[r])
            /\ runRet[r] \notin CtxErrs)

C3_Witness ==
    \E r \in Runners :
        /\ runPc[r] = "done" /\ Passed(r)
        /\ ctxErr[runCtx[r]] = ErrDeadline
        /\ runRet[r] = Nil
        /\ reqPc[1] = "done"

\* C6: when Shutdown fails because a request is still being served at the
\* end of the grace period, Run returns a non-nil error that wraps the
\* Shutdown error; a Run call invokes Shutdown once and never again.
C6_ShutdownFailureReturnedOnce ==
    \A r \in Runners :
        /\ shutdownCalls[r] <= 1
        /\ runPc[r] \in {"shutwait"} => shutdownCalls[r] = 1
        /\ (runPc[r] = "done" /\ Passed(r)) =>
              /\ shutdownCalls[r] = 1
              /\ shutErr[r] # Nil =>
                    /\ runRet[r] # Nil
                    /\ runRet[r] = ShutdownFailure(shutErr[r])
                    /\ SubSeq(runRet[r], 2, Len(runRet[r])) = ErrDeadline

C6_Witness ==
    \E r \in Runners :
        /\ runPc[r] = "done"
        /\ shutErr[r] = ErrDeadline
        /\ conns # {}

\* C8: a status response is never torn: the handler calls each monitor's
\* accessor once, and the response fields of one monitor are all those of
\* one sample that monitor has held, whatever the monitors and the other
\* requests do meanwhile.
C8_JSON(m, st) ==
    CASE m = "power"    -> [battery_level |-> st.BatteryLevel, charging |-> st.Charging,
                            voltage |-> st.Voltage]
      [] m = "thermal"  -> [cpu_temp |-> st.CPUTemp, gpu_temp |-> st.GPUTemp,
                            ambient_temp |-> st.AmbientTemp, fan_speed |-> st.FanSpeed,
                            throttled |-> st.Throttled]
      [] m = "security" -> [case_open |-> st.CaseOpen, motion_detected |-> st.MotionDetected,
                            voltage_normal |-> st.VoltageNormal]

C8_Part(body, m) ==
    CASE m = "power"    -> body.power
      [] m = "thermal"  -> body.thermal
      [] m = "security" -> body.security

C8_StatusResponseNotTorn ==
    \A q \in Requests :
        /\ \A m \in StatusMonitors : getCalls[q][m] <= 1
        /\ (req[q] = [path |-> "/api/v1/status", method |-> "GET"]
              /\ reqPc[q] \in {"unlock", "done"}) =>
              /\ resp[q].code = StatusOK
              /\ \A m \in StatusMonitors :
                    /\ getCalls[q][m] = 1
                    /\ C8_Part(resp[q].body, m) = C8_JSON(m, snap[q][m])
                    /\ \E n \in 0..sample[m] : C8_Part(resp[q].body, m) = C8_JSON(m, StateAt(m, n))

C8_Witness ==
    \E q, p \in Requests :
        /\ q # p
        /\ reqPc[q] = "unlock"
        /\ resp[q].body.power = C8_JSON("power", StateAt("power", 0))
        /\ sample["power"] = 1
        /\ reqPc[p] \in {"thermal", "security", "encode", "unlock"}
        /\ snap[p]["power"] = StateAt("power", 1)

\* C9: GET /health answers 200 with status "ok" in every state of the
\* Server, without reading a monitor or taking the lock; it can be served
\* whoever holds or waits for the lock.
C9_HealthAlwaysOK ==
    /\ \A q \in Requests :
          (reqPc[q] = "done" /\ req[q] = [path |-> "/health", method |-> "GET"]) =>
              /\ resp[q] = [code |-> StatusOK, body |-> [status |-> "ok"]]
              /\ \A m \in StatusMonitors : getCalls[q][m] = 0
              /\ q \notin muxR
    /\ (Alive /\ variant = "secure") =>
          \A q \in Requests :
              (reqPc[q] = "idle" /\ \A p \in Requests : p < q => reqPc[p] # "idle") =>
                  ENABLED handleHealth(q, "GET", "direct")

C9_Witness ==
    /\ reqPc[1] = "done" /\ req[1] = [path |-> "/health", method |-> "GET"]
    /\ resp[1].code = StatusOK
    /\ reqPc[2] = "idle"
    /\ muxW # None
    /\ PendingLock = {}
    /\ runPc[1] = "set"

\* C10: a request with a method other than GET, to /health or to
\* /api/v1/status, is answered 405 at once: the handler takes no lock, calls
\* no accessor and leaves the Server as it was.
C10_NonGetRejected ==
    /\ [](\A q \in Requests :
            (reqPc[q] # "idle" /\ req[q].method # "GET") =>
                /\ reqPc[q] = "done"
                /\ resp[q] = [code |-> StatusMethodNotAllowed, body |-> "Method not allowed"]
                /\ \A m \in StatusMonitors : getCalls[q][m] = 0
                /\ q \notin muxR)
    /\ [][\A q \in Requests :
            (reqPc[q] = "idle" /\ reqPc'[q] # "idle" /\ req'[q].method # "GET") =>
                UNCHANGED <<srvVars, runVars, gorVars, muxR, conns, snap, getCalls, ctxErr>>
         ]_vars

C10_Witness ==
    \E q \in Requests :
        /\ reqPc[q] = "done"
        /\ req[q] = [path |-> "/api/v1/status", method |-> "POST"]
        /\ resp[q].code = StatusMethodNotAllowed
        /\ started
        /\ deviceID = "test-device-001"

\* C11: the device_id of every GET /api/v1/status response is the DeviceID
\* that was passed to New: the Server's deviceID is set by New and no Run
\* call, request or shutdown writes it afterwards.
C11_DeviceIDImmutable ==
    /\ [](Alive => deviceID = cfg.DeviceID)
    /\ [](\A q \in Requests :
            (req[q] = [path |-> "/api/v1/status", method |-> "GET"]
               /\ reqPc[q] \in {"unlock", "done"}) =>
                  resp[q].body.device_id = cfg.DeviceID)
    /\ [][(constructed = "yes" /\ ~crashed') => deviceID' = deviceID]_vars

C11_Witness ==
    \E q \in Requests :
        /\ req[q] = [path |-> "/api/v1/status", method |-> "GET"]
        /\ reqPc[q] = "done"
        /\ resp[q].body.device_id = "test-device-001"
        /\ runPc[1] = "done"
        /\ inShutdown

\* C12: once a Run call that got past the guard has returned, the listener
\* accepts no connection in any later state, whether the listener goroutine
\* ran ListenAndServe before Shutdown was called or only after it.
C12_NoAcceptAfterRunReturned ==
    /\ [](\A r \in Runners : (runPc[r] = "done" /\ Passed(r)) =>
            /\ ctxErr[runCtx[r]] # Nil
            /\ inShutdown
            /\ lnState # "serving"
            /\ \A q \in Requests : ~ENABLED handleStatus(q, "GET", "conn"))
    /\ [][((\E r \in Runners : runPc[r] = "done" /\ Passed(r)) /\ ~crashed') =>
            /\ lnState' # "serving"
            /\ conns' \subseteq conns]_vars

C12_Witness ==
    \E r \in Runners :
        /\ runPc[r] = "done" /\ Passed(r)
        /\ gor[<<r, "http">>] = "exited"
        /\ lsCalls = 1
        /\ lnState = "none"
        /\ HTTPErrLog \notin logged
        /\ reqPc[1] = "idle"

\* C13: in the process, a signal received on sigCh leads to the
\* cancellation of the context passed to Run, and the cancellation leads to
\* the exit of the process; the exit status is 0 when Run returned nil and
\* not 0 when Run or New returned an error.
C13_SignalLeadsToExit ==
    /\ (sigCh # << >>) ~> (ctxErr["ctx"] # Nil \/ exitStatus # NoExit)
    /\ (ctxErr["ctx"] # Nil) ~> (exitStatus # NoExit)
    /\ [][(ctxErr["ctx"] = Nil /\ ctxErr'["ctx"] # Nil) =>
            (sigCh # << >> /\ sigPc = "waiting" /\ ctxErr'["ctx"] = ErrCanceled)]_vars
    /\ [](exitStatus = ExitSuccess =>
            /\ constructed = "yes"
            /\ runPc[MainRunner] = "done"
            /\ runRet[MainRunner] = Nil)
    /\ []((exitStatus # NoExit /\ constructed = "yes" /\ ~crashed) =>
            /\ runPc[MainRunner] = "done"
            /\ runRet[MainRunner] = Nil => exitStatus = ExitSuccess
            /\ runRet[MainRunner] # Nil => exitStatus # ExitSuccess)
    /\ []((exitStatus # NoExit /\ constructed = "failed") =>
            /\ newErr # Nil
            /\ exitStatus # ExitSuccess)

C13_Witness ==
    /\ exitStatus = ExitSuccess
    /\ sigPc = "done"
    /\ ctxErr["ctx"] = ErrCanceled
    /\ runRet[MainRunner] = Nil

\* Run call r is inside Run and cannot take its next step.
RunBlocked(r) ==
    /\ Alive
    /\ runPc[r] \notin {"idle", "done"}
    /\ ~ENABLED RunStep(r)

\* C14 (as claimed): a Run call waits on nothing but its context and then
\* Shutdown; in particular it never waits for a lock that a status request
\* holds.
C14_RunWaitsOnlyOnCtxThenShutdown ==
    \A r \in Runners : RunBlocked(r) => runPc[r] = "wait"

\* C14 (amended): a Run call waits, in this order, for the Server lock of
\* its started guard (while another Run call holds it or status requests
\* hold the read lock), for its context, and for Shutdown, which returns;
\* it waits for nothing else, whatever the monitor and listener goroutines
\* do, and it calls Shutdown only after its context has ended.
C14_RunWaitsOnLockCtxShutdown ==
    /\ [](\A r \in Runners : RunBlocked(r) =>
            \/ runPc[r] = "lock" /\ (muxW # None \/ muxR # {})
            \/ runPc[r] = "wait" /\ ctxErr[runCtx[r]] = Nil)
    /\ [](\A r \in Runners : shutdownCalls[r] > 0 => ctxErr[runCtx[r]] # Nil)
    /\ [][\A r \in Runners :
            (shutdownCalls'[r] > shutdownCalls[r]) =>
                /\ runPc[r] = "shutdown"
                /\ ctxErr[runCtx[r]] # Nil
         ]_vars
    /\ [][\A r \in Runners :
            (runPc'[r] # runPc[r] /\ ~crashed') =>
                <<runPc[r], runPc'[r]>> \in
                    {<<"idle", "lock">>, <<"lock", "check">>, <<"check", "set">>,
                     <<"check", "done">>, <<"set", "go">>, <<"go", "wait">>,
                     <<"wait", "shutdown">>, <<"shutdown", "shutwait">>,
                     <<"shutwait", "done">>}
         ]_vars

C14_Witness ==
    \E r \in Runners :
        /\ runPc[r] = "lock"
        /\ muxW = None
        /\ muxR = {1}
        /\ 1 \in conns
        /\ RunBlocked(r)

\* C15: a Run call that got past the guard returns once its context has
\* ended and Shutdown has returned, also when its monitor loops never look
\* at the context and go on running; Run ends no monitor goroutine: a
\* monitor goroutine ends only by its own return, and no Run call moves
\* with it.
C15_RunDoesNotWaitForMonitors ==
    /\ \A r \in Runners :
          (Passed(r) /\ ctxErr[runCtx[r]] # Nil) ~> (runPc[r] = "done" \/ crashed)
    /\ [][\A g \in Runners \X Tasks :
            (g[2] # "http" /\ gor[g] = "running" /\ gor'[g] # "running" /\ ~crashed') =>
                /\ \/ gor'[g] = "exited" /\ ctxErr[gorCtx[g]] # Nil
                   \/ gor'[g] = "failed"
                /\ UNCHANGED runVars
         ]_vars

C15_Witness ==
    \E r \in Runners :
        /\ runPc[r] = "done" /\ Passed(r)
        /\ runRet[r] = Nil
        /\ \A m \in Monitors(variant) : gor[<<r, m>>] = "running"
        /\ gor[<<r, "http">>] = "exited"

\* The handler of request q is running and cannot take its next step.
StatusBlocked(q) ==
    /\ Alive
    /\ reqPc[q] \notin {"idle", "done"}
    /\ ~ENABLED StatusStep(q)

\* C16: every status request completes, in whatever state of the lifecycle
\* it arrives; its handler waits only for the read lock, and only while a
\* Run call holds the lock or waits for it; a Run call holds the lock for
\* its started guard only; status requests hold the read lock together; and
\* whenever a Run call or a handler waits for the lock, one of those that
\* hold it or wait for it can take a step.
C16_StatusRequestsComplete ==
    /\ \A q \in Requests :
          (reqPc[q] \notin {"idle", "done"}) ~> (reqPc[q] = "done" \/ crashed)
    /\ [](\A q \in Requests : StatusBlocked(q) =>
            /\ reqPc[q] = "rlock"
            /\ muxW # None \/ PendingLock # {})
    /\ [](\A r \in Runners : muxW = r => runPc[r] \in {"check", "set"})
    /\ []((Alive /\ (PendingLock # {} \/ \E q \in Requests : reqPc[q] = "rlock")) =>
            \/ \E r \in Runners : runPc[r] \in {"lock", "check", "set"} /\ ENABLED RunStep(r)
            \/ \E q \in Requests : ENABLED StatusStep(q))

C16_Witness ==
    /\ muxR = Requests
    /\ runPc[1] = "lock"
    /\ \E q \in Requests : reqPc[q] = "unlock"

\* C17: the status handler holds the read lock only while it reads the
\* monitors and fills the SystemStatus value: when the response is encoded
\* and written the lock has been released.
C17_LockReleasedBeforeEncode ==
    \A q \in Requests :
        /\ q \in muxR => reqPc[q] \in StatusMonitors \cup {"encode"}
        /\ (reqPc[q] \in {"unlock", "done"} /\ resp[q].code = StatusOK
              /\ req[q].path = "/api/v1/status") => q \notin muxR

\* Run call r has executed all its go statements.
AllStarted(r) ==
    \/ runPc[r] \in {"wait", "shutdown", "shutwait"}
    \/ runPc[r] = "done" /\ Passed(r)

\* C18: a Run call that got past the guard has started one goroutine for
\* each monitor of the Server and one for the listener, and no other; each
\* is started once; every monitor loop has the context Run waits on, so
\* that once it ends every running monitor loop can see it; in whatever
\* order the goroutines are scheduled, a Run without requests in flight
\* returns nil and leaves the Server started, with its device id, and the
\* listener shut down.
C18_OneTaskPerMonitorSameCtx ==
    /\ [](\A r \in Runners : AllStarted(r) =>
            /\ {t \in Tasks : gor[<<r, t>>] # "none"} = Monitors(variant) \cup {"http"}
            /\ \A m \in Monitors(variant) : gorCtx[<<r, m>>] = runCtx[r])
    /\ [](\A t \in Tasks : Cardinality({r \in Runners : gor[<<r, t>>] # "none"}) <= 1)
    /\ [](lsCalls <= 1)
    /\ [][\A g \in Runners \X Tasks :
            /\ (gor[g] # "none" /\ ~crashed') => gor'[g] # "none"
            /\ (gor[g] = "none" /\ gor'[g] # "none" /\ ~crashed') =>
                   /\ runPc[g[1]] = "go"
                   /\ \A h \in (Runners \X Tasks) \ {g} : gor'[h] = gor[h]
         ]_vars
    /\ [](\A r \in Runners, m \in Monitors(variant) :
            (Alive /\ gor[<<r, m>>] = "running" /\ ctxErr[runCtx[r]] # Nil) =>
                ENABLED MonitorExit(r, m))
    /\ [](\A r \in Runners : (runPc[r] = "done" /\ Passed(r)) =>
            /\ runRet[r] = Nil
            /\ started
            /\ deviceID = cfg.DeviceID
            /\ inShutdown
            /\ lnState # "serving")

C18_Witness ==
    \E r \in Runners, m, n \in Monitors(variant) :
        /\ runPc[r] = "done" /\ Passed(r)
        /\ gor[<<r, m>>] = "exited"
        /\ gor[<<r, n>>] = "running"
        /\ gor[<<r, "http">>] = "running"
        /\ lnState = "closed"
        /\ variant = "core"

\* The lifecycle state of the Server, read from its started flag and from
\* the Run call that got past the guard.
C19_Phase ==
    IF constructed = "failed" THEN "Failed"
    ELSE IF \E r \in Runners : runPc[r] = "done" /\ Passed(r) /\ runRet[r] = Nil THEN "Stopped"
    ELSE IF \E r \in Runners : runPc[r] = "done" /\ Passed(r) THEN "Failed"
    ELSE IF \E r \in Runners : runPc[r] \in {"shutdown", "shutwait"} THEN "ShuttingDown"
    ELSE IF started THEN "Running"
    ELSE "Created"

C19_Forward ==
    {<<"Created", "Running">>, <<"Running", "ShuttingDown">>,
     <<"ShuttingDown", "Stopped">>, <<"ShuttingDown", "Failed">>,
     <<"Created", "Failed">>}

\* C19: as long as the process lives the lifecycle only moves forward,
\* from Created to Running, ShuttingDown and then Stopped or Failed, where
\* it stays (and from Created to Failed when New fails); started is never
\* cleared once set; a Run call that reaches the
\* guard after a Run has returned is rejected and changes nothing; a Run
\* that got past the guard returns an error only when Shutdown failed.
C19_LifecycleOnlyForward ==
    /\ [][~crashed' =>
            /\ C19_Phase' # C19_Phase => <<C19_Phase, C19_Phase'>> \in C19_Forward
            /\ (C19_Phase = "Created" /\ C19_Phase' = "Failed") => constructed' = "failed"
            /\ started => started'
         ]_vars
    /\ [][\A r \in Runners :
            ((\E p \in Runners : runPc[p] = "done" /\ Passed(p))
               /\ runPc[r] = "check" /\ runPc'[r] # "check" /\ ~crashed') =>
                /\ runPc'[r] = "done"
                /\ runRet'[r] = ErrAlreadyStarted
                /\ UNCHANGED <<started, gor, lnState, inShutdown, lsCalls, shutdownCalls>>
         ]_vars
    /\ [](\A r \in Runners : (runPc[r] = "done" /\ Passed(r)) =>
            /\ started
            /\ runRet[r] # Nil =>
                  /\ shutErr[r] # Nil
                  /\ runRet[r] = ShutdownFailure(shutErr[r]))
    /\ [](C19_Phase = "Running" =>
            \E r \in Runners : runPc[r] \in {"go", "wait"})

C19_Witness ==
    /\ C19_Phase = "Failed"
    /\ runPc[1] = "done" /\ Passed(1)
    /\ runRet[1] = ShutdownFailure(ErrDeadline)
    /\ runPc[2] = "check"
    /\ started

\* C20: when ListenAndServe fails to bind or serve, the listener goroutine
\* logs the error and ends, and nothing else happens: no Run call moves or
\* returns, the monitor goroutines are as before, Run stays at its wait
\* until its context ends, then calls Shutdown and returns its result.
C20_ListenFailureOnlyLogged ==
    /\ [][\A r \in Runners :
            (gor[<<r, "http">>] = "ready" /\ gor'[<<r, "http">>] = "exited"
               /\ ~inShutdown /\ ~crashed') =>
                /\ HTTPErrLog \in logged'
                /\ lnState' = lnState
                /\ \A g \in (Runners \X Tasks) \ {<<r, "http">>} : gor'[g] = gor[g]
                /\ UNCHANGED <<runVars, srvVars, inShutdown, ctxErr, crashed>>
         ]_vars
    /\ [](HTTPErrLog \in logged =>
            /\ lnState = "none"
            /\ \E r \in Runners : gor[<<r, "http">>] = "exited"
            /\ \A r \in Runners :
                  /\ (runPc[r] = "wait" /\ Alive) =>
                        (ENABLED RunStep(r) <=> ctxErr[runCtx[r]] # Nil)
                  /\ (runPc[r] = "done" /\ Passed(r)) =>
                        /\ ctxErr[runCtx[r]] # Nil
                        /\ shutdownCalls[r] = 1
                        /\ runRet[r] = RunReturn(r, shutErr[r])
                        /\ runRet[r] = Nil)

C20_Witness ==
    \E r \in Runners :
        /\ HTTPErrLog \in logged
        /\ runPc[r] = "done" /\ Passed(r)
        /\ runRet[r] = Nil
        /\ \A m \in Monitors(variant) : gor[<<r, m>>] = "running"

====
